---------------------------- MODULE Spec2Model ----------------------------
(* pdf-to-md: a model of src/main.py.                                      *)
(*                                                                         *)
(* Text is a sequence of one-character strings.  A span is a record with   *)
(* the keys the decoder gives it ("text", "size", "flags"); a malformed    *)
(* span lacks one of them.  A font size is held in half points (21 is      *)
(* 10.5 pt), so that round() has something to round.  A block is a record  *)
(* with "type", "bbox" (<<x0, top, x1, bottom>>) and, for a text block,    *)
(* "lines", a sequence of lines; a line is a sequence of spans.            *)
(* An output fragment is a record: "text" is the string the program        *)
(* appends; "kind" and "src" are bookkeeping of the model (what the        *)
(* fragment is, and the <<page, block, line>> places its text came from)   *)
(* that no modelled code reads.                                            *)
EXTENDS Integers, Sequences, FiniteSets, TLC

VARIABLES
    pc,                 \* where the run is
    doc_state,          \* the fitz document: "none", "open", "closed"
    n_pages,            \* len(doc)
    page_num,           \* loop index of line 111
    page,               \* the page last loaded: [status, blocks]
    blocks_used,        \* the blocks of the pages loaded so far (for the bound)
    i,                  \* loop index of line 134
    body_size,          \* of the page being processed
    heading_levels,     \* of the page being processed
    markdown_output,    \* the fragment list
    current_paragraph,  \* the accumulator: [text, src]
    last_block_bottom,
    final_markdown,     \* the text handed to the writer
    md_file,            \* "absent", "written"
    error,              \* "none", or what ended the run
    line_in,            \* SpecLine: the line being built
    processed_line      \* SpecLine: its formatted text

vars == <<pc, doc_state, n_pages, page_num, page, blocks_used, i, body_size,
          heading_levels, markdown_output, current_paragraph,
          last_block_bottom, final_markdown, md_file, error, line_in,
          processed_line>>

-----------------------------------------------------------------------------
(* Bounds of the model.                                                    *)

MaxPages == 2
MaxDocBlocks == 3
MaxProfSpans == 5
MaxLineSpans == 3
MaxPostFragments == 4
MaxListChars == 5
MaxBlockSpans == 3

-----------------------------------------------------------------------------
(* Strings.                                                                *)

IsSpace(c) == c \in {" ", "\n", "\t"}

RECURSIVE LStrip(_)
LStrip(s) ==
    IF s # <<>> /\ IsSpace(Head(s)) THEN LStrip(Tail(s)) ELSE s

RECURSIVE RStrip(_)
RStrip(s) ==
    IF s # <<>> /\ IsSpace(s[Len(s)]) THEN RStrip(SubSeq(s, 1, Len(s) - 1)) ELSE s

\* str.strip()
Strip(s) == RStrip(LStrip(s))

\* str.startswith / str.endswith
StartsWith(s, p) == Len(s) >= Len(p) /\ SubSeq(s, 1, Len(p)) = p

EndsWith(s, p) == Len(s) >= Len(p) /\ SubSeq(s, Len(s) - Len(p) + 1, Len(s)) = p

BoldMark == <<"*", "*">>

RECURSIVE Concat(_)
Concat(ss) == IF ss = <<>> THEN <<>> ELSE Head(ss) \o Concat(Tail(ss))

RECURSIVE SumSeq(_)
SumSeq(ns) == IF ns = <<>> THEN 0 ELSE Head(ns) + SumSeq(Tail(ns))

\* round(n / d) for n >= 0, d > 0: Python rounds a half to the even neighbour
RoundDiv(n, d) ==
    LET q == n \div d
        r == n % d
    IN  IF 2 * r < d THEN q
        ELSE IF 2 * r > d THEN q + 1
        ELSE IF q % 2 = 0 THEN q ELSE q + 1

\* round(span['size']), the size being held in half points
RoundSize(half_points) == RoundDiv(half_points, 2)

\* (span['flags'] & 2**4) > 0
IsBold(flags) == (flags \div 16) % 2 = 1

-----------------------------------------------------------------------------
(* determine_font_styles.                                                  *)

None == -1

\* the spans of the text blocks of a page, in the order lines 39-42 visit them
RECURSIVE LineSpansOf(_)
LineSpansOf(lines) ==
    IF lines = <<>> THEN <<>> ELSE Head(lines) \o LineSpansOf(Tail(lines))

RECURSIVE PageSpans(_)
PageSpans(text_blocks) ==
    IF text_blocks = <<>> THEN <<>>
    ELSE (IF Head(text_blocks).type = 0
          THEN LineSpansOf(Head(text_blocks).lines) ELSE <<>>)
         \o PageSpans(Tail(text_blocks))

\* span['size'], span['flags'], span['text'] of lines 43-46: a KeyError when absent
SpanComplete(span) == {"size", "flags", "text"} \subseteq DOMAIN span

\* all_sizes of lines 38-44
all_sizes(spans) == [k \in 1..Len(spans) |-> RoundSize(spans[k].size)]

\* a weight that counts the spans of a size, not their characters
size_counts_by_span(spans, size) ==
    Cardinality({k \in 1..Len(spans) : RoundSize(spans[k].size) = size})

\* size_counts[size] of lines 52-58: the stripped characters at that size
size_counts(spans, size) ==
    SumSeq([k \in 1..Len(spans) |->
              IF RoundSize(spans[k].size) = size
              THEN Len(Strip(spans[k].text)) ELSE 0])

\* statistics.mode(all_sizes) of line 67, 10 when there is none: the most frequent
\* value, the first met on a tie
mode(sizes) ==
    LET occurrences(s) == Cardinality({k \in 1..Len(sizes) : sizes[k] = s})
    IN  IF sizes = <<>> THEN 10
        ELSE sizes[CHOOSE k \in 1..Len(sizes) :
                     /\ \A j \in 1..Len(sizes) : occurrences(sizes[j]) <= occurrences(sizes[k])
                     /\ \A j \in 1..(k - 1) : occurrences(sizes[j]) < occurrences(sizes[k])]

\* line 64: size_counts.most_common(1)[0][0] (the highest count, the first
\* inserted on a tie) if size_counts else None.  size_counts has a key for every
\* span visited, whatever its weight.
most_common(spans) ==
    LET sizes == all_sizes(spans)
        count == [k \in 1..Len(sizes) |-> size_counts(spans, sizes[k])]
        first == CHOOSE k \in 1..Len(sizes) :
                   /\ \A j \in 1..Len(sizes) : count[j] <= count[k]
                   /\ \A j \in 1..(k - 1) : count[j] < count[k]
    IN  IF sizes = <<>> THEN None ELSE sizes[first]

\* sorted(..., reverse=True) of a set of integers
RECURSIVE SortedDesc(_)
SortedDesc(S) ==
    IF S = {} THEN <<>>
    ELSE LET m == CHOOSE x \in S : \A y \in S : y <= x
         IN  <<m>> \o SortedDesc(S \ {m})

\* heading_candidates of lines 71-74
heading_candidates(spans, body) ==
    LET sizes == all_sizes(spans)
    IN  SortedDesc({s \in {sizes[k] : k \in 1..Len(sizes)} : s > body + 1})

\* a level for each of the four largest candidates
assign_levels_four(candidates) ==
    LET n == IF Len(candidates) <= 4 THEN Len(candidates) ELSE 4
    IN  [s \in {candidates[k] : k \in 1..n} |->
           CHOOSE k \in 1..n : candidates[k] = s]

\* the loop of lines 77-84
assign_levels(candidates) ==
    LET n == IF Len(candidates) <= 3 THEN Len(candidates) ELSE 3
    IN  [s \in {candidates[k] : k \in 1..n} |->
           CHOOSE k \in 1..n : candidates[k] = s]

\* determine_font_styles(page): what it returns, or that it raises.
\* text_error is page.get_text raising one of the caught errors.
determine_font_styles(text_blocks, text_error) ==
    LET spans == PageSpans(text_blocks) IN
    IF text_error \/ text_blocks = <<>>
    THEN [raised |-> FALSE, body_size |-> None, heading_levels |-> <<>>]
    ELSE IF \E k \in 1..Len(spans) : ~SpanComplete(spans[k])
    THEN [raised |-> TRUE, body_size |-> None, heading_levels |-> <<>>]
    ELSE IF spans = <<>>
    THEN [raised |-> FALSE, body_size |-> None, heading_levels |-> <<>>]
    ELSE LET weighted == most_common(spans)
             body == IF weighted = None THEN mode(all_sizes(spans)) ELSE weighted
         IN  [raised |-> FALSE, body_size |-> body,
              heading_levels |-> assign_levels(heading_candidates(spans, body))]

-----------------------------------------------------------------------------
(* is_list_item.                                                           *)

\* the characters of [\*\-\+U+2022]; "bullet" stands for the one character U+2022
ListMarkers == {"*", "-", "+", "bullet"}

Digits == {"0", "1", "2", "3", "4", "5", "6", "7", "8", "9"}

Letters ==
    {"a", "b", "c", "d", "e", "f", "g", "h", "i", "j", "k", "l", "m", "n", "o",
     "p", "q", "r", "s", "t", "u", "v", "w", "x", "y", "z",
     "A", "B", "C", "D", "E", "F", "G", "H", "I", "J", "K", "L", "M", "N", "O",
     "P", "Q", "R", "S", "T", "U", "V", "W", "X", "Y", "Z"}

RECURSIVE DropDigits(_)
DropDigits(s) == IF s # <<>> /\ Head(s) \in Digits THEN DropDigits(Tail(s)) ELSE s

\* a pattern with no whitespace asked for after the marker
is_list_item_unspaced(text) ==
    LET rest == LStrip(text)
        afterDigits == DropDigits(rest)
    IN  /\ rest # <<>>
        /\ \/ Head(rest) \in ListMarkers
           \/ Head(rest) \in Digits /\ afterDigits # <<>> /\ Head(afterDigits) = "."
           \/ Head(rest) \in Letters /\ Len(rest) >= 2 /\ rest[2] = "."

\* re.match(r"^\s*([\*\-\+U+2022]|\d+\.|[a-zA-Z]\.)\s+", text)
is_list_item(text) ==
    LET rest == LStrip(text)
        spaceAt(s, k) == Len(s) >= k /\ IsSpace(s[k])
        afterDigits == DropDigits(rest)
    IN  /\ rest # <<>>
        /\ \/ Head(rest) \in ListMarkers /\ spaceAt(rest, 2)
           \/ /\ Head(rest) \in Digits
              /\ afterDigits # <<>> /\ Head(afterDigits) = "."
              /\ spaceAt(afterDigits, 2)
           \/ Head(rest) \in Letters /\ Len(rest) >= 2 /\ rest[2] = "." /\ spaceAt(rest, 3)

-----------------------------------------------------------------------------
(* convert_pdf_to_markdown: the body of the block loop.                    *)

\* span.get('text', ''), round(span.get('size', body_size)), span.get('flags', 0)
SpanText(span) == IF "text" \in DOMAIN span THEN span.text ELSE <<>>

SpanSize(span, body) == IF "size" \in DOMAIN span THEN RoundSize(span.size) ELSE body

SpanFlags(span) == IF "flags" \in DOMAIN span THEN span.flags ELSE 0

\* line_text_parts of lines 145-155
line_text_parts(line, body) ==
    [k \in 1..Len(line) |->
       [text |-> SpanText(line[k]), size |-> SpanSize(line[k], body),
        bold |-> IsBold(SpanFlags(line[k]))]]

\* block_text_lines of lines 138-160
block_text_lines(block, body) ==
    LET lines == IF "lines" \in DOMAIN block THEN block.lines ELSE <<>>
    IN  [k \in 1..Len(lines) |-> line_text_parts(lines[k], body)]

\* block_avg_size of lines 156-166: weighted by len(text)
block_avg_size(text_lines, body) ==
    LET parts == LineSpansOf(text_lines)
        total_size == SumSeq([k \in 1..Len(parts) |-> parts[k].size * Len(parts[k].text)])
        span_count == SumSeq([k \in 1..Len(parts) |-> Len(parts[k].text)])
    IN  IF span_count > 0 THEN RoundDiv(total_size, span_count) ELSE body

\* block.get('bbox', [0, 0, 0, 0])[1] and [3]
block_top(block) == IF "bbox" \in DOMAIN block THEN block.bbox[2] ELSE 0

\* the top edge taken for the bottom edge
block_bottom_top(block) == IF "bbox" \in DOMAIN block THEN block.bbox[2] ELSE 0

block_bottom(block) == IF "bbox" \in DOMAIN block THEN block.bbox[4] ELSE 0

\* the fragments
PageMarker(n) ==
    [text |-> <<"\n", "<!-- Page " \o ToString(n) \o " -->", "\n">>,
     kind |-> "marker", page |-> n, src |-> <<>>]

BlankFragment(n) == [text |-> <<>>, kind |-> "blank", page |-> n, src |-> <<>>]

Hashes(level) == [k \in 1..level |-> "#"]

\* "#" * level + " " + heading_text + "\n"
HeadingFragment(level, heading_text, n, src) ==
    [text |-> Hashes(level) \o <<" ">> \o heading_text \o <<"\n">>,
     kind |-> "heading", page |-> n, src |-> src]

\* processed_line.strip() + "\n"
ListFragment(line_text, n, src) ==
    [text |-> Strip(line_text) \o <<"\n">>, kind |-> "list", page |-> n, src |-> src]

EmptyParagraph == [text |-> <<>>, src |-> <<>>]

\* if current_paragraph: markdown_output.append(current_paragraph.strip() + "\n");
\* current_paragraph = ""       (lines 178-180, 193-195, 219-221, 236-238)
Flushed(out, para, n) ==
    IF para.text # <<>>
    THEN Append(out, [text |-> Strip(para.text) \o <<"\n">>, kind |-> "para",
                      page |-> n, src |-> para.src])
    ELSE out

\* the test of line 177: vertical_gap > body_size * 0.7
GapExceeds(vertical_gap, body) == 10 * vertical_gap > 7 * body

\* a break at every gap, whatever the last fragment
paragraph_spacing_always(st, block, pnum, idx, body, last_bottom) ==
    IF /\ pnum > 0 \/ idx > 0
       /\ GapExceeds(block_top(block) - last_bottom, body)
    THEN [out |-> Append(Flushed(st.out, st.para, pnum + 1), BlankFragment(pnum + 1)),
          para |-> EmptyParagraph]
    ELSE st

\* lines 174-181: st is [out, para]
paragraph_spacing(st, block, pnum, idx, body, last_bottom) ==
    IF /\ pnum > 0 \/ idx > 0
       /\ GapExceeds(block_top(block) - last_bottom, body)
       /\ st.out[Len(st.out)].text # <<>>
    THEN [out |-> Append(Flushed(st.out, st.para, pnum + 1), BlankFragment(pnum + 1)),
          para |-> EmptyParagraph]
    ELSE st

\* a wrap test that wraps every bold span
WrapsBold_always(so_far, text) == TRUE

\* the wrap test of line 210
WrapsBold(so_far, text) == ~EndsWith(so_far, BoldMark) /\ ~StartsWith(text, BoldMark)

\* processed_line of lines 204-215
RECURSIVE format_line(_, _)
format_line(so_far, line_parts) ==
    IF line_parts = <<>> THEN so_far
    ELSE LET span == Head(line_parts)
             piece == IF span.bold /\ WrapsBold(so_far, span.text)
                      THEN BoldMark \o span.text \o BoldMark
                      ELSE span.text
         IN  format_line(so_far \o piece, Tail(line_parts))

\* line_text_raw of line 203
line_text_raw(line_parts) == Concat([k \in 1..Len(line_parts) |-> line_parts[k].text])

\* heading_text of lines 188-190
heading_text_of(text_lines) == Strip(line_text_raw(LineSpansOf(text_lines)))

\* a heading that leaves the open paragraph in the accumulator
heading_branch_unflushed(st, level, heading_text, pnum, idx) ==
    [out |-> Append(st.out,
                    HeadingFragment(level, heading_text, pnum + 1, <<<<pnum + 1, idx, 0>>>>)),
     para |-> st.para]

\* a heading appended ahead of the paragraph it interrupts
heading_branch_ahead(st, level, heading_text, pnum, idx) ==
    [out |-> Flushed(Append(st.out, HeadingFragment(level, heading_text, pnum + 1,
                                                    <<<<pnum + 1, idx, 0>>>>)),
                     st.para, pnum + 1),
     para |-> EmptyParagraph]

\* lines 192-197
heading_branch(st, level, heading_text, pnum, idx) ==
    [out |-> Append(Flushed(st.out, st.para, pnum + 1),
                    HeadingFragment(level, heading_text, pnum + 1, <<<<pnum + 1, idx, 0>>>>)),
     para |-> EmptyParagraph]

\* a list item that drops the open paragraph
list_branch_dropping(st, formatted, pnum, idx, ln) ==
    [out |-> Append(st.out, ListFragment(formatted, pnum + 1, <<<<pnum + 1, idx, ln>>>>)),
     para |-> EmptyParagraph]

\* lines 218-223
list_branch(st, formatted, pnum, idx, ln) ==
    [out |-> Append(Flushed(st.out, st.para, pnum + 1),
                    ListFragment(formatted, pnum + 1, <<<<pnum + 1, idx, ln>>>>)),
     para |-> EmptyParagraph]

\* a paragraph line appended with no separator
paragraph_branch_unspaced(st, formatted, pnum, idx, ln) ==
    [out |-> st.out,
     para |-> [text |-> st.para.text \o Strip(formatted),
               src |-> Append(st.para.src, <<pnum + 1, idx, ln>>)]]

\* lines 224-228
paragraph_branch(st, formatted, pnum, idx, ln) ==
    LET sep == IF st.para.text # <<>> /\ ~EndsWith(st.para.text, <<"\n">>)
               THEN <<" ">> ELSE <<>>
    IN  [out |-> st.out,
         para |-> [text |-> st.para.text \o sep \o Strip(formatted),
                   src |-> Append(st.para.src, <<pnum + 1, idx, ln>>)]]

\* one line of the loop of lines 201-228
process_line(st, line_parts, pnum, idx, ln) ==
    LET raw == line_text_raw(line_parts)
        formatted == format_line(<<>>, line_parts)
    IN  IF is_list_item(raw) THEN list_branch(st, formatted, pnum, idx, ln)
        ELSE IF Strip(raw) # <<>> THEN paragraph_branch(st, formatted, pnum, idx, ln)
        ELSE st

RECURSIVE process_lines(_, _, _, _, _)
process_lines(st, text_lines, pnum, idx, ln) ==
    IF ln > Len(text_lines) THEN st
    ELSE process_lines(process_line(st, text_lines[ln], pnum, idx, ln),
                       text_lines, pnum, idx, ln + 1)

\* a heading test that does not look at the text
is_heading_by_size(text_lines, body, levels) ==
    block_avg_size(text_lines, body) \in DOMAIN levels

\* whether lines 185-197 make the block a heading
is_heading(text_lines, body, levels) ==
    /\ block_avg_size(text_lines, body) \in DOMAIN levels
    /\ heading_text_of(text_lines) # <<>>

\* lines 138-228 for one text block: st is [out, para]
process_text_block(st, block, pnum, idx, body, levels, last_bottom) ==
    LET text_lines == block_text_lines(block, body)
        spaced == paragraph_spacing(st, block, pnum, idx, body, last_bottom)
    IN  IF is_heading(text_lines, body, levels)
        THEN heading_branch(spaced, levels[block_avg_size(text_lines, body)],
                            heading_text_of(text_lines), pnum, idx)
        ELSE process_lines(spaced, text_lines, pnum, idx, 1)

-----------------------------------------------------------------------------
(* convert_pdf_to_markdown: the final output, lines 242-244.               *)

\* "\n".join(markdown_output)
RECURSIVE JoinLines(_)
JoinLines(texts) ==
    IF texts = <<>> THEN <<>>
    ELSE IF Len(texts) = 1 THEN texts[1]
    ELSE texts[1] \o <<"\n">> \o JoinLines(Tail(texts))

RECURSIVE LeadingNewlines(_)
LeadingNewlines(s) ==
    IF s # <<>> /\ Head(s) = "\n" THEN 1 + LeadingNewlines(Tail(s)) ELSE 0

\* a collapse of the runs of 4 or more newlines only
RECURSIVE collapse_newlines_four(_)
collapse_newlines_four(s) ==
    IF s = <<>> THEN <<>>
    ELSE LET run == LeadingNewlines(s)
         IN  IF run = 0 THEN <<Head(s)>> \o collapse_newlines_four(Tail(s))
             ELSE (IF run >= 4 THEN <<"\n", "\n">> ELSE [k \in 1..run |-> "\n"])
                  \o collapse_newlines_four(SubSeq(s, run + 1, Len(s)))

\* re.sub(r'\n{3,}', '\n\n', s)
RECURSIVE collapse_newlines(_)
collapse_newlines(s) ==
    IF s = <<>> THEN <<>>
    ELSE LET run == LeadingNewlines(s)
         IN  IF run = 0 THEN <<Head(s)>> \o collapse_newlines(Tail(s))
             ELSE (IF run >= 3 THEN <<"\n", "\n">> ELSE [k \in 1..run |-> "\n"])
                  \o collapse_newlines(SubSeq(s, run + 1, Len(s)))

final_output(out) ==
    Strip(collapse_newlines(JoinLines([k \in 1..Len(out) |-> out[k].text])))

-----------------------------------------------------------------------------
(* The inputs: what the decoder may hand over.                             *)

Span(text, size, flags) == [text |-> text, size |-> size, flags |-> flags]

\* the lines of a text block
BlockContents ==
    { << <<Span(<<"a", "a">>, 20, 0)>> >>,                     \* a body line
      << <<Span(<<"T">>, 48, 16)>> >>,                         \* a 24 pt bold title
      << <<Span(<<" ">>, 48, 0)>> >>,                          \* 24 pt, only a space
      << <<Span(<<"c", " ">>, 20, 0), Span(<<"d">>, 20, 16)>>, \* three lines: one with
         <<Span(<<" ", "e", " ">>, 20, 0)>>,                   \* a bold span, one inside
         <<Span(<<"-", " ", "f">>, 21, 0)>> >> }               \* spaces, one list line

\* text blocks with a span that lacks a key
MalformedContents ==
    { << <<[text |-> <<"a">>, flags |-> 0]>> >>,
      << <<[text |-> <<"a">>, size |-> 20]>> >>,
      << <<[size |-> 20, flags |-> 0]>> >> }

\* bounding boxes <<x0, top, x1, bottom>>
BBoxes == { <<0, 0, 100, 10>>, <<0, 18, 100, 28>>, <<0, 36, 100, 46>> }

BodyBlock == [type |-> 0, bbox |-> <<0, 0, 100, 10>>, lines |-> << <<Span(<<"a", "a">>, 20, 0)>> >>]

\* an image
ImageBlock == [type |-> 1, bbox |-> <<0, 0, 100, 10>>]

\* the body line at every position, the other contents at two positions each
Placed(b, c) ==
    \/ Len(c) = 1 /\ c[1][1].size = 20
    \/ Len(c) = 1 /\ c[1][1].size = 48 /\ b[2] # 36
    \/ Len(c) = 3 /\ b[2] # 18

Blocks ==
    {bl \in {[type |-> 0, bbox |-> b, lines |-> c] : b \in BBoxes, c \in BlockContents} :
       Placed(bl.bbox, bl.lines)}
    \cup {ImageBlock}

MalformedBlocks ==
    {[type |-> 0, bbox |-> <<0, 18, 100, 28>>, lines |-> c] : c \in MalformedContents}

\* get_text(sort=True) hands the blocks over by ascending bottom edge
IsSorted(bs) == \A k \in 1..(Len(bs) - 1) : bs[k].bbox[4] <= bs[k + 1].bbox[4]

RECURSIVE SortedBlockSeqs(_)
SortedBlockSeqs(n) ==
    IF n = 0 THEN {<<>>}
    ELSE LET shorter == SortedBlockSeqs(n - 1)
             longest == {t \in shorter : Len(t) = n - 1}
         IN  shorter \cup {bs \in {Append(t, b) : t \in longest, b \in Blocks} : IsSorted(bs)}

PageBlockSeqs == SortedBlockSeqs(MaxDocBlocks)

\* pages with a malformed span: alone, or after a well-formed block
MalformedBlockSeqs ==
    {<<m>> : m \in MalformedBlocks} \cup {<<BodyBlock, m>> : m \in MalformedBlocks}

\* a page and what the decoder does with it: "ok"; "load_error", doc.load_page
\* raises; "text_error" and "sort_error", the get_text of line 27 or of line 121
\* raises one of the errors caught there
Pages ==
    {[status |-> "ok", blocks |-> bs] : bs \in PageBlockSeqs \cup MalformedBlockSeqs}
    \cup {[status |-> "sort_error", blocks |-> <<b>>] : b \in {BodyBlock, ImageBlock}}
    \cup {[status |-> st, blocks |-> <<>>] : st \in {"load_error", "text_error"}}

NoPage == [status |-> "ok", blocks |-> <<>>]

-----------------------------------------------------------------------------
(* convert_pdf_to_markdown.                                                *)

Init ==
    /\ pc = "start"
    /\ doc_state = "none"
    /\ n_pages = 0
    /\ page_num = 0
    /\ page = NoPage
    /\ blocks_used = 0
    /\ i = 0
    /\ body_size = None
    /\ heading_levels = <<>>
    /\ markdown_output = <<>>
    /\ current_paragraph = EmptyParagraph
    /\ last_block_bottom = 0
    /\ final_markdown = <<>>
    /\ md_file = "absent"
    /\ error = "none"
    /\ line_in = <<>>
    /\ processed_line = <<>>

lineVars == <<line_in, processed_line>>

\* lines 98-100: the path does not exist
PathMissing ==
    /\ pc = "start"
    /\ pc' = "done"
    /\ error' = "not_found"
    /\ UNCHANGED <<doc_state, n_pages, page_num, page, blocks_used, i, body_size,
                   heading_levels, markdown_output, current_paragraph,
                   last_block_bottom, final_markdown, md_file, lineVars>>

\* lines 102-106: fitz.open raises
OpenFails ==
    /\ pc = "start"
    /\ pc' = "done"
    /\ error' = "open_error"
    /\ UNCHANGED <<doc_state, n_pages, page_num, page, blocks_used, i, body_size,
                   heading_levels, markdown_output, current_paragraph,
                   last_block_bottom, final_markdown, md_file, lineVars>>

\* lines 102-109
OpenDoc ==
    /\ pc = "start"
    /\ \E n \in 0..MaxPages : n_pages' = n
    /\ doc_state' = "open"
    /\ markdown_output' = <<>>
    /\ last_block_bottom' = 0
    /\ pc' = "page"
    /\ UNCHANGED <<page_num, page, blocks_used, i, body_size, heading_levels,
                   current_paragraph, final_markdown, md_file, error, lineVars>>

Profile(p) == determine_font_styles(p.blocks, p.status = "text_error")

\* each page with what line 113 makes of it
ProfiledPages == {[page |-> p, styles |-> Profile(p)] : p \in Pages}

\* a page loop that goes on when the sorted get_text fails
PageOutcome_unsorted(pp) ==
    IF pp.page.status = "load_error" \/ pp.styles.raised THEN "raise"
    ELSE IF pp.styles.body_size = None THEN "skip"
    ELSE "start"

\* what lines 112-128 do with a page: "raise", "skip" or "start"
PageOutcome(pp) ==
    IF pp.page.status = "load_error" \/ pp.styles.raised THEN "raise"
    ELSE IF pp.styles.body_size = None \/ pp.page.status = "sort_error" THEN "skip"
    ELSE "start"

PagesBy ==
    [outcome \in {"raise", "skip", "start"} |->
       [n \in 0..MaxDocBlocks |->
          {pp \in ProfiledPages : PageOutcome(pp) = outcome /\ Len(pp.page.blocks) = n}]]

\* the pages the next load may bring, by what becomes of them
NextPages(outcome) ==
    UNION {PagesBy[outcome][n] : n \in 0..(MaxDocBlocks - blocks_used)}

\* lines 112-113: load_page or determine_font_styles raises; nothing catches it
PageRaises ==
    /\ pc = "page" /\ page_num < n_pages
    /\ \E pp \in NextPages("raise") :
         /\ page' = pp.page
         /\ blocks_used' = blocks_used + Len(pp.page.blocks)
         /\ error' = IF pp.page.status = "load_error" THEN "load_page" ELSE "KeyError"
    /\ pc' = "crashed"
    /\ UNCHANGED <<doc_state, n_pages, page_num, i, body_size, heading_levels,
                   markdown_output, current_paragraph, last_block_bottom,
                   final_markdown, md_file, lineVars>>

\* lines 115-117 and 126-128: continue
SkipPage ==
    /\ pc = "page" /\ page_num < n_pages
    /\ \E pp \in NextPages("skip") :
         /\ page' = pp.page
         /\ blocks_used' = blocks_used + Len(pp.page.blocks)
         /\ body_size' = pp.styles.body_size
         /\ heading_levels' = pp.styles.heading_levels
    /\ page_num' = page_num + 1
    /\ UNCHANGED <<pc, doc_state, n_pages, i, markdown_output, current_paragraph,
                   last_block_bottom, final_markdown, md_file, error, lineVars>>

\* lines 112-132
StartPage ==
    /\ pc = "page" /\ page_num < n_pages
    /\ \E pp \in NextPages("start") :
         /\ page' = pp.page
         /\ blocks_used' = blocks_used + Len(pp.page.blocks)
         /\ body_size' = pp.styles.body_size
         /\ heading_levels' = pp.styles.heading_levels
    /\ markdown_output' = Append(markdown_output, PageMarker(page_num + 1))
    /\ current_paragraph' = EmptyParagraph
    /\ i' = 0
    /\ pc' = "block"
    /\ UNCHANGED <<doc_state, n_pages, page_num, last_block_bottom, final_markdown,
                   md_file, error, lineVars>>

\* lines 135-136
SkipBlock ==
    /\ pc = "block" /\ i < Len(page.blocks)
    /\ ~("type" \in DOMAIN page.blocks[i + 1] /\ page.blocks[i + 1].type = 0)
    /\ i' = i + 1
    /\ UNCHANGED <<pc, doc_state, n_pages, page_num, page, blocks_used, body_size,
                   heading_levels, markdown_output, current_paragraph,
                   last_block_bottom, final_markdown, md_file, error, lineVars>>

\* lines 138-233
TextBlock ==
    /\ pc = "block" /\ i < Len(page.blocks)
    /\ "type" \in DOMAIN page.blocks[i + 1] /\ page.blocks[i + 1].type = 0
    /\ LET st == process_text_block(
                     [out |-> markdown_output, para |-> current_paragraph],
                     page.blocks[i + 1], page_num, i, body_size, heading_levels,
                     last_block_bottom)
       IN  /\ markdown_output' = st.out
           /\ current_paragraph' = st.para
    /\ last_block_bottom' = block_bottom(page.blocks[i + 1])
    /\ i' = i + 1
    /\ UNCHANGED <<pc, doc_state, n_pages, page_num, page, blocks_used, body_size,
                   heading_levels, final_markdown, md_file, error, lineVars>>

\* lines 235-238, and the next turn of the page loop
EndPage ==
    /\ pc = "block" /\ i = Len(page.blocks)
    /\ markdown_output' = Flushed(markdown_output, current_paragraph, page_num + 1)
    /\ current_paragraph' = EmptyParagraph
    /\ page_num' = page_num + 1
    /\ page' = NoPage
    /\ pc' = "page"
    /\ UNCHANGED <<doc_state, n_pages, blocks_used, i, body_size,
                   heading_levels, last_block_bottom, final_markdown, md_file,
                   error, lineVars>>

\* lines 242-249 and 253-256: the file is written, the document closed
WriteOutput ==
    /\ pc = "page" /\ page_num = n_pages
    /\ final_markdown' = final_output(markdown_output)
    /\ md_file' = "written"
    /\ doc_state' = "closed"
    /\ pc' = "done"
    /\ UNCHANGED <<n_pages, page_num, page, blocks_used, i, body_size,
                   heading_levels, markdown_output, current_paragraph,
                   last_block_bottom, error, lineVars>>

\* lines 242-256: open or write raises IOError; the document is closed
WriteFails ==
    /\ pc = "page" /\ page_num = n_pages
    /\ final_markdown' = final_output(markdown_output)
    /\ error' = "write_error"
    /\ doc_state' = "closed"
    /\ pc' = "done"
    /\ UNCHANGED <<n_pages, page_num, page, blocks_used, i, body_size,
                   heading_levels, markdown_output, current_paragraph,
                   last_block_bottom, md_file, lineVars>>

Next ==
    \/ PathMissing
    \/ OpenFails
    \/ OpenDoc
    \/ PageRaises
    \/ SkipPage
    \/ StartPage
    \/ SkipBlock
    \/ TextBlock
    \/ EndPage
    \/ WriteOutput
    \/ WriteFails

Spec == Init /\ [][Next]_vars

-----------------------------------------------------------------------------
(* determine_font_styles on its own: a page is built span by span, then    *)
(* profiled.                                                               *)

\* sizes in half points: 10.5, 18, 24 and 30 pt with text, 11 and 12 pt with a
\* space
ProfSpans ==
    {Span(<<"a">>, size, 0) : size \in {36, 48, 60}}
    \cup {Span(<<" ", "a", "a", "a", " ">>, 21, 16), Span(<<" ">>, 22, 0),
          Span(<<" ">>, 24, 0)}

ProfPage(spans) ==
    [status |-> "ok",
     blocks |-> <<[type |-> 0, bbox |-> <<0, 0, 100, 10>>, lines |-> <<spans>>]>>]

InitProfile ==
    /\ Init!2 /\ Init!3 /\ Init!4 /\ Init!6 /\ Init!7 /\ Init!8 /\ Init!9
    /\ Init!10 /\ Init!11 /\ Init!12 /\ Init!13 /\ Init!14 /\ Init!15
    /\ Init!16 /\ Init!17
    /\ pc = "profile_build"
    /\ page = ProfPage(<<>>)

ProfAddSpan ==
    /\ pc = "profile_build"
    /\ Len(PageSpans(page.blocks)) < MaxProfSpans
    /\ \E span \in ProfSpans : page' = ProfPage(Append(PageSpans(page.blocks), span))
    /\ UNCHANGED <<pc, doc_state, n_pages, page_num, blocks_used, i, body_size,
                   heading_levels, markdown_output, current_paragraph,
                   last_block_bottom, final_markdown, md_file, error, lineVars>>

\* body_size, heading_levels = determine_font_styles(page)
ProfRun ==
    /\ pc = "profile_build"
    /\ body_size' = Profile(page).body_size
    /\ heading_levels' = Profile(page).heading_levels
    /\ pc' = "profiled"
    /\ UNCHANGED <<doc_state, n_pages, page_num, page, blocks_used, i,
                   markdown_output, current_paragraph, last_block_bottom,
                   final_markdown, md_file, error, lineVars>>

NextProfile == ProfAddSpan \/ ProfRun

SpecProfile == InitProfile /\ [][NextProfile]_vars

-----------------------------------------------------------------------------
(* The bold reassembly of lines 204-215 on its own: a line is built span   *)
(* by span, then formatted.                                                *)

LineTexts ==
    { <<"A">>, <<"B">>, <<"H", "e", "l", "l", "o", " ">>, <<"W", "o", "r", "l", "d">>,
      <<"*", "*">>, <<"*", "*", "x">>, <<"y", "*", "*">>, <<>> }

LineSpans == {Span(t, 20, f) : t \in LineTexts, f \in {0, 16}}

InitLine ==
    /\ Init!2 /\ Init!3 /\ Init!4 /\ Init!5 /\ Init!6 /\ Init!7 /\ Init!8
    /\ Init!9 /\ Init!10 /\ Init!11 /\ Init!12 /\ Init!13 /\ Init!14
    /\ Init!15 /\ Init!16 /\ Init!17
    /\ pc = "line_build"

LineAddSpan ==
    /\ pc = "line_build"
    /\ Len(line_in) < MaxLineSpans
    /\ \E span \in LineSpans : line_in' = Append(line_in, span)
    /\ UNCHANGED <<pc, doc_state, n_pages, page_num, page, blocks_used, i,
                   body_size, heading_levels, markdown_output, current_paragraph,
                   last_block_bottom, final_markdown, md_file, error,
                   processed_line>>

\* processed_line of lines 204-215 for line_in
LineFormat ==
    /\ pc = "line_build"
    /\ processed_line' = format_line(<<>>, line_text_parts(line_in, 10))
    /\ pc' = "line_done"
    /\ UNCHANGED <<doc_state, n_pages, page_num, page, blocks_used, i, body_size,
                   heading_levels, markdown_output, current_paragraph,
                   last_block_bottom, final_markdown, md_file, error, line_in>>

NextLine == LineAddSpan \/ LineFormat

SpecLine == InitLine /\ [][NextLine]_vars

-----------------------------------------------------------------------------
(* The final output of lines 242-244 on its own: a fragment list is built  *)
(* fragment by fragment, then joined, collapsed and trimmed.               *)

PostTexts ==
    { <<>>, <<"a">>, <<"a", "\n">>, <<"\n">>, <<"\n", "\n">>, <<" ">>,
      <<"\n", "b", "\n">> }

InitPost ==
    /\ Init!2 /\ Init!3 /\ Init!4 /\ Init!5 /\ Init!6 /\ Init!7 /\ Init!8
    /\ Init!9 /\ Init!10 /\ Init!11 /\ Init!12 /\ Init!13 /\ Init!14
    /\ Init!15 /\ Init!16 /\ Init!17
    /\ pc = "post_build"

PostAddFragment ==
    /\ pc = "post_build"
    /\ Len(markdown_output) < MaxPostFragments
    /\ \E t \in PostTexts :
         markdown_output' =
           Append(markdown_output, [text |-> t, kind |-> "para", page |-> 1, src |-> <<>>])
    /\ UNCHANGED <<pc, doc_state, n_pages, page_num, page, blocks_used, i,
                   body_size, heading_levels, current_paragraph,
                   last_block_bottom, final_markdown, md_file, error, lineVars>>

\* lines 242-244 for markdown_output
PostRun ==
    /\ pc = "post_build"
    /\ final_markdown' = final_output(markdown_output)
    /\ pc' = "post_done"
    /\ UNCHANGED <<doc_state, n_pages, page_num, page, blocks_used, i, body_size,
                   heading_levels, markdown_output, current_paragraph,
                   last_block_bottom, md_file, error, lineVars>>

NextPost == PostAddFragment \/ PostRun

SpecPost == InitPost /\ [][NextPost]_vars

-----------------------------------------------------------------------------
(* The list detection of lines 201-228 on its own: a line is built         *)
(* character by character, then processed as the first line of a block     *)
(* whose second line is a list item.                                       *)

ListChars == {" ", "*", "bullet", "1", ".", "a"}

ListLine(text) == <<Span(text, 20, 0)>>

SiblingLine == <<Span(<<"-", " ", "f">>, 20, 0)>>

InitList ==
    /\ Init!2 /\ Init!3 /\ Init!4 /\ Init!5 /\ Init!6 /\ Init!7 /\ Init!8
    /\ Init!9 /\ Init!10 /\ Init!11 /\ Init!12 /\ Init!13 /\ Init!14
    /\ Init!15 /\ Init!17
    /\ pc = "list_build"
    /\ line_in = ListLine(<<>>)

ListAddChar ==
    /\ pc = "list_build"
    /\ Len(line_in[1].text) < MaxListChars
    /\ \E c \in ListChars : line_in' = ListLine(Append(line_in[1].text, c))
    /\ UNCHANGED <<pc, doc_state, n_pages, page_num, page, blocks_used, i,
                   body_size, heading_levels, markdown_output, current_paragraph,
                   last_block_bottom, final_markdown, md_file, error,
                   processed_line>>

\* lines 201-228 for the two lines, nothing in the accumulator before them
ListRun ==
    /\ pc = "list_build"
    /\ LET st == process_lines([out |-> <<>>, para |-> EmptyParagraph],
                               <<line_text_parts(line_in, 10),
                                 line_text_parts(SiblingLine, 10)>>, 0, 0, 1)
       IN  /\ markdown_output' = st.out
           /\ current_paragraph' = st.para
    /\ pc' = "list_done"
    /\ UNCHANGED <<doc_state, n_pages, page_num, page, blocks_used, i, body_size,
                   heading_levels, last_block_bottom, final_markdown, md_file,
                   error, lineVars>>

NextList == ListAddChar \/ ListRun

SpecList == InitList /\ [][NextList]_vars

-----------------------------------------------------------------------------
(* The block average of lines 138-197 on its own: the one line of a text   *)
(* block is built span by span, then the block is processed on a page      *)
(* whose body size is 10 and whose one heading size is 24.                 *)

BlockSpans ==
    { Span(<<"T">>, 48, 0), Span(<<" ", " ">>, 20, 0), Span(<<"a">>, 20, 0),
      Span(<<" ", "T", " ">>, 48, 0), Span(<<" ">>, 48, 0) }

BuiltBlock == [type |-> 0, bbox |-> <<0, 0, 100, 10>>, lines |-> <<line_in>>]

InitBlock ==
    /\ Init!2 /\ Init!3 /\ Init!4 /\ Init!5 /\ Init!6 /\ Init!7
    /\ Init!10 /\ Init!11 /\ Init!12 /\ Init!13 /\ Init!14
    /\ Init!15 /\ Init!16 /\ Init!17
    /\ pc = "block_build"
    /\ body_size = 10
    /\ heading_levels = (24 :> 1)

BlockAddSpan ==
    /\ pc = "block_build"
    /\ Len(line_in) < MaxBlockSpans
    /\ \E span \in BlockSpans : line_in' = Append(line_in, span)
    /\ UNCHANGED <<pc, doc_state, n_pages, page_num, page, blocks_used, i,
                   body_size, heading_levels, markdown_output, current_paragraph,
                   last_block_bottom, final_markdown, md_file, error,
                   processed_line>>

\* lines 138-233 for the block, the first of its page
BlockRun ==
    /\ pc = "block_build"
    /\ LET st == process_text_block([out |-> <<PageMarker(1)>>, para |-> EmptyParagraph],
                                    BuiltBlock, 0, 0, body_size, heading_levels, 0)
       IN  /\ markdown_output' = st.out
           /\ current_paragraph' = st.para
    /\ last_block_bottom' = block_bottom(BuiltBlock)
    /\ pc' = "block_done"
    /\ UNCHANGED <<doc_state, n_pages, page_num, page, blocks_used, i, body_size,
                   heading_levels, final_markdown, md_file, error, lineVars>>

NextBlock == BlockAddSpan \/ BlockRun

SpecBlock == InitBlock /\ [][NextBlock]_vars

-----------------------------------------------------------------------------
(* The claims about the block loop of convert_pdf_to_markdown, under Spec. *)
(* A fragment's src names the lines its text came from, <<page, block,     *)
(* line>> each, the line 0 for a heading, which takes its whole block.     *)

\* line s of the document stands before line t
LineBefore(s, t) ==
    \/ s[1] < t[1]
    \/ s[1] = t[1] /\ s[2] < t[2]
    \/ s[1] = t[1] /\ s[2] = t[2] /\ s[3] < t[3]

\* the block of line s stands before the block of line t
BlockBefore(s, t) == s[1] < t[1] \/ (s[1] = t[1] /\ s[2] < t[2])

\* the fragments a step appends
NewFragments ==
    SubSeq(markdown_output', Len(markdown_output) + 1, Len(markdown_output'))

Interrupts(frags) == {k \in 1..Len(frags) : frags[k].kind \in {"heading", "list"}}

\* the lines of the page in hand, and block idx of it (counted from 0)
PageBlock(idx) == page.blocks[idx + 1]

IsTextBlock(block) == "type" \in DOMAIN block /\ block.type = 0

PageLines(idx) == block_text_lines(PageBlock(idx), body_size)

\* the lines of the page in hand that the loop has gone through and that belong
\* to a paragraph: not of a heading block, no list item, not blank
ParagraphLinesDone ==
    UNION {{<<page_num + 1, idx, ln>> : ln \in
              {n \in 1..Len(PageLines(idx)) :
                 /\ ~is_heading(PageLines(idx), body_size, heading_levels)
                 /\ ~is_list_item(line_text_raw(PageLines(idx)[n]))
                 /\ Strip(line_text_raw(PageLines(idx)[n])) # <<>>}}
           : idx \in {x \in 0..(i - 1) : IsTextBlock(PageBlock(x))}}

\* what holds of the output and the accumulator in every state
FlushedBeforeInterrupt ==
    /\ pc = "page" => current_paragraph = EmptyParagraph
    /\ (pc = "block" /\ i = 0) => current_paragraph = EmptyParagraph
    /\ (current_paragraph.text = <<>>) <=> (current_paragraph.src = <<>>)
    /\ \A k \in Interrupts(markdown_output) :
         LET s == markdown_output[k].src[1]
         IN  /\ \A n \in 1..Len(current_paragraph.src) :
                  LineBefore(s, current_paragraph.src[n])
             /\ \A l \in (k + 1)..Len(markdown_output) :
                  \A n \in 1..Len(markdown_output[l].src) :
                    LineBefore(s, markdown_output[l].src[n])
             /\ (pc = "block" /\ s[1] = page_num + 1) =>
                  \A t \in ParagraphLinesDone :
                    LineBefore(t, s) =>
                      \E l \in 1..(k - 1) :
                        /\ markdown_output[l].kind = "para"
                        /\ \E n \in 1..Len(markdown_output[l].src) :
                             markdown_output[l].src[n] = t

\* what holds of every step that appends a heading or a list item, or ends a
\* page, with a paragraph open
FlushStep ==
    (/\ current_paragraph.text # <<>>
     /\ Interrupts(NewFragments) # {} \/ pc' = "page") =>
        /\ NewFragments # <<>>
        /\ NewFragments[1].kind = "para"
        /\ StartsWith(NewFragments[1].text, current_paragraph.text)
        /\ StartsWith(NewFragments[1].src, current_paragraph.src)
        /\ \A n \in 1..Len(current_paragraph'.src) :
             \A m \in 1..Len(current_paragraph.src) :
               current_paragraph'.src[n] # current_paragraph.src[m]
        /\ pc' = "page" =>
             /\ NewFragments = <<[text |-> current_paragraph.text \o <<"\n">>,
                                  kind |-> "para", page |-> page_num + 1,
                                  src |-> current_paragraph.src]>>
             /\ current_paragraph' = EmptyParagraph

\* C1: whenever a heading or list-item fragment is appended, or the end of a
\* page is reached, the open paragraph has been appended as a fragment of its
\* own first and nothing of it is left in the accumulator; the accumulated text
\* never stands after the heading or list fragment that interrupted it, and no
\* paragraph is open at the start of a page.
C1_FlushBeforeInterrupt == [](FlushedBeforeInterrupt) /\ [][FlushStep]_vars

\* a paragraph has been flushed by the heading or list item that follows it, no
\* blank fragment between the two
C1_Witness ==
    /\ pc = "block"
    /\ current_paragraph = EmptyParagraph
    /\ \E k \in 1..(Len(markdown_output) - 1) :
         /\ markdown_output[k].kind = "para"
         /\ markdown_output[k + 1].kind = "heading"
         /\ BlockBefore(markdown_output[k].src[1], markdown_output[k + 1].src[1])

\* the step goes through block i of the page in hand, a text block
TextBlockStep == pc = "block" /\ i' = i + 1 /\ IsTextBlock(PageBlock(i))

\* C2 as claimed: for every text block that is not the very first of the
\* document and whose gap to the bottom of the block before it is greater than
\* bodySize * 0.7, the open paragraph is flushed and then one blank fragment is
\* appended before anything of the block, the third and later paragraph blocks
\* in a row included.
C2_AsClaimed ==
    [][(/\ TextBlockStep
        /\ page_num > 0 \/ i > 0
        /\ 10 * (PageBlock(i).bbox[2] - last_block_bottom) > 7 * body_size) =>
           LET flushed == Flushed(markdown_output, current_paragraph, page_num + 1)
           IN  /\ Len(markdown_output') > Len(flushed)
               /\ SubSeq(markdown_output', 1, Len(flushed)) = flushed
               /\ markdown_output'[Len(flushed) + 1].kind = "blank"
               /\ \A n \in 1..Len(current_paragraph'.src) :
                    current_paragraph'.src[n][2] = i]_vars

\* the rounds of the marker of a processed page
Markers == {k \in 1..Len(markdown_output) : markdown_output[k].kind = "marker"}

\* the marker of page N once, before every fragment of page N, the markers by
\* increasing N, N the place of the page in the document counted from 1
MarkersInOrder ==
    /\ \A k \in Markers : markdown_output[k] = PageMarker(markdown_output[k].page)
    /\ \A k, l \in Markers : k < l => markdown_output[k].page < markdown_output[l].page
    /\ \A k \in 1..Len(markdown_output) :
         /\ markdown_output[k].page \in 1..n_pages
         /\ \E m \in Markers :
              m <= k /\ markdown_output[m].page = markdown_output[k].page
    /\ pc = "block" =>
         \E m \in Markers :
           /\ markdown_output[m].page = page_num + 1
           /\ \A l \in Markers : l <= m

RECURSIVE JoinSpaces(_)
JoinSpaces(texts) ==
    IF texts = <<>> THEN <<>>
    ELSE IF Len(texts) = 1 THEN texts[1]
    ELSE texts[1] \o <<" ">> \o JoinSpaces(Tail(texts))

\* the text line s of the page in hand gives to a fragment
SrcText(s) ==
    IF s[3] = 0 THEN Strip(line_text_raw(LineSpansOf(PageLines(s[2]))))
    ELSE Strip(format_line(<<>>, PageLines(s[2])[s[3]]))

\* a fragment of the page in hand carries the text of the lines its src names,
\* in the order of src
CarriesItsSources ==
    pc = "block" =>
      \A k \in 1..Len(markdown_output) :
        LET f == markdown_output[k]
            texts == [n \in 1..Len(f.src) |-> SrcText(f.src[n])]
        IN  f.page = page_num + 1 =>
              /\ f.kind \in {"marker", "blank"} <=> f.src = <<>>
              /\ f.kind = "para" => f.text = JoinSpaces(texts) \o <<"\n">>
              /\ f.kind = "list" => f.text = texts[1] \o <<"\n">> /\ Len(f.src) = 1
              /\ f.kind = "heading" =>
                   /\ Len(f.src) = 1
                   /\ EndsWith(f.text, <<"#", " ">> \o texts[1] \o <<"\n">>)

\* C3 as claimed: the marker of a processed page N stands once and before every
\* fragment of page N, the markers by increasing N, and for text blocks i
\* before j every fragment carrying text of i precedes every fragment carrying
\* text of j.
C3_AsClaimed ==
    /\ MarkersInOrder
    /\ CarriesItsSources
    /\ \A k, l \in 1..Len(markdown_output) :
         \A m \in 1..Len(markdown_output[k].src), n \in 1..Len(markdown_output[l].src) :
           BlockBefore(markdown_output[k].src[m], markdown_output[l].src[n]) => k < l

\* C3, amended: the marker of a processed page N stands once and before every
\* fragment of page N, the markers by increasing N, and for text blocks i
\* before j every fragment carrying text of i precedes every fragment carrying
\* text of j or is the same paragraph fragment, in which the text of i stands
\* before the text of j.
C3_OutputOrder ==
    /\ MarkersInOrder
    /\ CarriesItsSources
    /\ \A k, l \in 1..Len(markdown_output) :
         \A m \in 1..Len(markdown_output[k].src), n \in 1..Len(markdown_output[l].src) :
           BlockBefore(markdown_output[k].src[m], markdown_output[l].src[n]) =>
             \/ k < l
             \/ k = l /\ m < n /\ markdown_output[k].kind = "para"

\* two pages have been processed, the first with two blocks merged into one
\* paragraph fragment
C3_Witness ==
    /\ pc = "block"
    /\ Cardinality(Markers) = 2
    /\ \E k \in 1..Len(markdown_output) :
         /\ markdown_output[k].kind = "para"
         /\ Len(markdown_output[k].src) = 2
         /\ BlockBefore(markdown_output[k].src[1], markdown_output[k].src[2])
         /\ \E l \in (k + 1)..Len(markdown_output) : markdown_output[l].src # <<>>

-----------------------------------------------------------------------------
(* The claims about determine_font_styles, under SpecProfile.              *)

\* what the claims speak of, stated apart from the code's own definitions
MaxOf(S) == CHOOSE x \in S : \A y \in S : y <= x

MinOf(S) == CHOOSE x \in S : \A y \in S : x <= y

\* the number of characters of a text once its outer whitespace is gone
StrippedLength(text) ==
    LET inked == {k \in 1..Len(text) : ~IsSpace(text[k])}
    IN  IF inked = {} THEN 0 ELSE MaxOf(inked) - MinOf(inked) + 1

ProfiledSpans == PageSpans(page.blocks)

\* the distinct rounded sizes of the page
PageSizes == {RoundSize(ProfiledSpans[k].size) : k \in 1..Len(ProfiledSpans)}

\* the characters the page carries at a size
RECURSIVE WeightOf(_, _)
WeightOf(spans, size) ==
    IF spans = <<>> THEN 0
    ELSE (IF RoundSize(Head(spans).size) = size THEN StrippedLength(Head(spans).text) ELSE 0)
         + WeightOf(Tail(spans), size)

\* the sizes strictly greater than bodySize + 1
LargerSizes == {s \in PageSizes : s > body_size + 1}

Levels == DOMAIN heading_levels

\* C4: the keys of the heading level map are exactly the (up to three) largest
\* distinct rounded sizes strictly greater than bodySize + 1; the largest has
\* level 1, the next 2, the next 3; no other level is assigned and a size beyond
\* the third largest is no key; the sizes {10,10,10,18,24} with 10 carrying the
\* most characters give bodySize 10 and the map {24: 1, 18: 2}.
C4_HeadingLevelMap ==
    (pc = "profiled" /\ body_size # None) =>
        /\ Levels \subseteq LargerSizes
        /\ \A s \in LargerSizes :
             s \in Levels <=> Cardinality({t \in LargerSizes : t > s}) < 3
        /\ \A s \in Levels :
             /\ heading_levels[s] = 1 + Cardinality({t \in LargerSizes : t > s})
             /\ heading_levels[s] \in 1..3
        /\ Cardinality(Levels) <= 3
        /\ ( /\ PageSizes = {10, 18, 24}
             /\ Len(ProfiledSpans) = 5
             /\ Cardinality({k \in 1..5 : RoundSize(ProfiledSpans[k].size) = 10}) = 3
             /\ WeightOf(ProfiledSpans, 10) > WeightOf(ProfiledSpans, 18)
             /\ WeightOf(ProfiledSpans, 10) > WeightOf(ProfiledSpans, 24) )
           => (body_size = 10 /\ Levels = {18, 24}
               /\ heading_levels[24] = 1 /\ heading_levels[18] = 2)

\* a page with four distinct sizes above bodySize + 1 has been profiled: the
\* fourth largest got no level
C4_Witness ==
    /\ pc = "profiled" /\ body_size # None
    /\ Cardinality(LargerSizes) = 4
    /\ Cardinality(Levels) = 3
    /\ MinOf(LargerSizes) \notin Levels

\* C5: for a page with at least one span, bodySize is the rounded size whose
\* accumulated weight (the stripped characters of its spans, not the number of
\* spans) is the highest of all sizes on the page; a page with one distinct span
\* size has that size as bodySize and an empty heading level map.
C5_BodySize ==
    (pc = "profiled" /\ ProfiledSpans # <<>>) =>
        /\ body_size \in PageSizes
        /\ \A s \in PageSizes :
             WeightOf(ProfiledSpans, s) <= WeightOf(ProfiledSpans, body_size)
        /\ Cardinality(PageSizes) = 1 => (PageSizes = {body_size} /\ Levels = {})

\* a page has been profiled whose bodySize has fewer spans than another size
C5_Witness ==
    /\ pc = "profiled" /\ ProfiledSpans # <<>>
    /\ \E s \in PageSizes :
         /\ Cardinality({k \in 1..Len(ProfiledSpans) : RoundSize(ProfiledSpans[k].size) = s})
              > Cardinality({k \in 1..Len(ProfiledSpans) :
                               RoundSize(ProfiledSpans[k].size) = body_size})
         /\ WeightOf(ProfiledSpans, s) < WeightOf(ProfiledSpans, body_size)

-----------------------------------------------------------------------------
(* The claims about headings, skipped pages and errors, under Spec.        *)

\* all span texts of a block, line after line
BlockText(block) ==
    Concat([l \in 1..Len(block.lines) |->
              Concat([k \in 1..Len(block.lines[l]) |-> SpanText(block.lines[l][k])])])

\* the fragments among frags that carry text of block idx of the page in hand
FragmentsOf(frags, idx) ==
    {k \in 1..Len(frags) :
       \E n \in 1..Len(frags[k].src) :
         frags[k].src[n][1] = page_num + 1 /\ frags[k].src[n][2] = idx}

\* the heading test for the block a step goes through; ending is what follows
\* headingText in the fragment
HeadingTest(ending) ==
    TextBlockStep =>
      LET block == PageBlock(i)
          size == block_avg_size(block_text_lines(block, body_size), body_size)
          headingText == Strip(BlockText(block))
          new == NewFragments
          mine == FragmentsOf(new, i)
      IN  size \in DOMAIN heading_levels =>
            /\ headingText # <<>> =>
                 /\ mine = {Len(new)}
                 /\ new[Len(new)].kind = "heading"
                 /\ new[Len(new)].text =
                      Hashes(heading_levels[size]) \o <<" ">> \o headingText \o ending
                 /\ new[Len(new)].src = <<<<page_num + 1, i, 0>>>>
                 /\ \A k \in 1..(Len(new) - 1) : new[k].kind \in {"para", "blank"}
                 /\ current_paragraph' = EmptyParagraph
            /\ headingText = <<>> =>
                 /\ mine = {}
                 /\ \A k \in 1..Len(new) : new[k].kind # "heading"
                 /\ process_lines(
                      paragraph_spacing([out |-> markdown_output, para |-> current_paragraph],
                                        block, page_num, i, body_size, last_block_bottom),
                      block_text_lines(block, body_size), page_num, i, 1)
                    = [out |-> markdown_output', para |-> current_paragraph']

\* C6 as claimed: a text block whose average size is a key of the heading level
\* map and whose concatenated span text is non-empty after stripping gives
\* exactly one fragment '#' x level + ' ' + headingText.
C6_AsClaimed == [][HeadingTest(<<>>)]_vars

\* C6, amended: a text block whose average size is a key of the heading level
\* map and whose concatenated span text is non-empty after stripping gives
\* exactly one fragment '#' x level + ' ' + headingText + newline, and none of
\* its lines is processed as a list item or appended to a paragraph; when the
\* concatenated text is empty or only whitespace the block gives no heading
\* fragment and goes through the list and paragraph handling.
C6_HeadingTest == [][HeadingTest(<<"\n">>)]_vars

\* a page with a heading emitted and a whitespace-only block of heading size
\* gone through
C6_Witness ==
    /\ pc = "block"
    /\ \E k \in 1..Len(markdown_output) :
         /\ markdown_output[k].kind = "heading"
         /\ markdown_output[k].page = page_num + 1
         /\ markdown_output[k].text = <<"#", " ", "T", "\n">>
    /\ \E idx \in 0..(i - 1) :
         /\ IsTextBlock(PageBlock(idx))
         /\ block_avg_size(PageLines(idx), body_size) \in DOMAIN heading_levels
         /\ Strip(BlockText(PageBlock(idx))) = <<>>

\* every span of the page has its size, flags and text
WellFormed(p) ==
    \A k \in 1..Len(PageSpans(p.blocks)) : SpanComplete(PageSpans(p.blocks)[k])

\* the page has no text block or no span, or the first get_text fails
NothingToProfile(p) ==
    \/ p.status = "text_error"
    \/ p.status = "ok" /\ PageSpans(p.blocks) = <<>>

C8_AsClaimed == ~WellFormed(page) => pc # "crashed"

\* C9 as claimed: once fitz.open has succeeded the document is closed on every
\* exit path, an error while loading or profiling a page included; a write
\* failure ends the run with the document closed; a failure to open ends it
\* with no output written.
C9_AsClaimed ==
    /\ (pc \in {"done", "crashed"} /\ doc_state # "none") => doc_state = "closed"
    /\ error = "write_error" => doc_state = "closed"
    /\ error = "open_error" => (md_file = "absent" /\ doc_state = "none")

-----------------------------------------------------------------------------
(* The claim about the bold reassembly, under SpecLine.                    *)

LineParts == line_text_parts(line_in, 10)

\* the line's pieces in order, each added marker a piece of its own and marked
\* as added; wraps(so_far, text) says whether a bold span is wrapped
RECURSIVE PiecesOf(_, _, _)
PiecesOf(wraps(_, _), pieces, parts) ==
    IF parts = <<>> THEN pieces
    ELSE LET so_far == Concat([k \in 1..Len(pieces) |-> pieces[k].text])
             own == [added |-> FALSE, text |-> Head(parts).text]
             mark == [added |-> TRUE, text |-> BoldMark]
         IN  PiecesOf(wraps,
                      IF Head(parts).bold /\ wraps(so_far, Head(parts).text)
                      THEN pieces \o <<mark, own, mark>> ELSE Append(pieces, own),
                      Tail(parts))

TextOf(pieces) == Concat([k \in 1..Len(pieces) |-> pieces[k].text])

RECURSIVE WithoutAdded(_)
WithoutAdded(pieces) ==
    IF pieces = <<>> THEN <<>>
    ELSE (IF Head(pieces).added THEN <<>> ELSE Head(pieces).text)
         \o WithoutAdded(Tail(pieces))

\* as the claim has it: wrapped unless the text so far ends with the marker and
\* the span's own text does not begin with it
ClaimedWraps(so_far, text) ==
    ~(EndsWith(so_far, BoldMark) /\ ~StartsWith(text, BoldMark))

\* as amended: wrapped unless the text so far ends with the marker or the span's
\* own text begins with it
AmendedWraps(so_far, text) ==
    ~(EndsWith(so_far, BoldMark) \/ StartsWith(text, BoldMark))

HelloWorld ==
    <<Span(<<"H", "e", "l", "l", "o", " ">>, 20, 0), Span(<<"W", "o", "r", "l", "d">>, 20, 16)>>

BoldAB == <<Span(<<"A">>, 20, 16), Span(<<"B">>, 20, 16)>>

\* C10 as claimed: a bold span is wrapped unless the text so far ends with '**'
\* and the span's own text does not begin with '**'.
C10_AsClaimed ==
    pc = "line_done" => processed_line = TextOf(PiecesOf(ClaimedWraps, <<>>, LineParts))

\* C10, amended: the formatted line is the concatenation of the span texts in
\* order, a bold span's text wrapped in a '**' pair unless the text emitted so
\* far ends with '**' or the span's own text begins with '**'; markers are added
\* in pairs only, and without the added markers the line is the raw line text;
\* ('Hello ', 'World' bold) gives 'Hello **World**' and two bold spans 'A', 'B'
\* give '**A**B'.
C10_BoldReassembly ==
    pc = "line_done" =>
        LET pieces == PiecesOf(AmendedWraps, <<>>, LineParts)
            added == {k \in 1..Len(pieces) : pieces[k].added}
        IN  /\ processed_line = TextOf(pieces)
            /\ WithoutAdded(pieces) = line_text_raw(LineParts)
            /\ Len(processed_line) = Len(line_text_raw(LineParts)) + 2 * Cardinality(added)
            /\ Cardinality(added) % 2 = 0
            /\ \A k \in added :
                 \/ k + 2 \in added /\ ~pieces[k + 1].added
                 \/ k - 2 \in added /\ ~pieces[k - 1].added
            /\ line_in = HelloWorld =>
                 processed_line = <<"H", "e", "l", "l", "o", " ", "*", "*",
                                    "W", "o", "r", "l", "d", "*", "*">>
            /\ line_in = BoldAB => processed_line = <<"*", "*", "A", "*", "*", "B">>

\* two adjacent bold spans have been formatted: the second was left unwrapped
C10_Witness ==
    /\ pc = "line_done"
    /\ line_in = BoldAB
    /\ processed_line = <<"*", "*", "A", "*", "*", "B">>

-----------------------------------------------------------------------------
(* The claims about paragraphs, list items and positions, under Spec.      *)

\* the formatted, stripped texts of the lines src names, one space between
JoinedLines(src) == JoinSpaces([n \in 1..Len(src) |-> SrcText(src[n])])

\* the paragraphs of the page in hand, flushed or open, are their lines in
\* order with one space between each two, no space before the first
ParagraphsJoined ==
    pc = "block" =>
      LET done == ParagraphLinesDone
      IN  /\ current_paragraph.text = JoinedLines(current_paragraph.src)
          /\ \A n \in 1..Len(current_paragraph.src) :
               /\ current_paragraph.src[n] \in done
               /\ n > 1 => LineBefore(current_paragraph.src[n - 1], current_paragraph.src[n])
          /\ \A k \in 1..Len(markdown_output) :
               LET f == markdown_output[k]
               IN  (f.kind = "para" /\ f.page = page_num + 1) =>
                     /\ f.src # <<>>
                     /\ f.text = JoinedLines(f.src) \o <<"\n">>
                     /\ \A n \in 1..Len(f.src) :
                          /\ f.src[n] \in done
                          /\ n > 1 => LineBefore(f.src[n - 1], f.src[n])

\* the lines in the accumulator stay together: a step leaves them there, more
\* lines after them, or appends one fragment that begins with all of them
MergedStep ==
    current_paragraph.src # <<>> =>
      \/ StartsWith(current_paragraph'.src, current_paragraph.src)
      \/ /\ NewFragments # <<>>
         /\ NewFragments[1].kind = "para"
         /\ StartsWith(NewFragments[1].src, current_paragraph.src)
         /\ \A k \in 2..Len(NewFragments) :
              \A n \in 1..Len(NewFragments[k].src), m \in 1..Len(current_paragraph.src) :
                NewFragments[k].src[n] # current_paragraph.src[m]

\* C12: the non-empty, non-list lines that reach the accumulator with no flush
\* in between, of one block or of consecutive blocks, are emitted as one
\* fragment in which they stand in order with exactly one space between each
\* two; a separator is put in only when the accumulator is non-empty.
C12_ParagraphMerge == [](ParagraphsJoined) /\ [][MergedStep]_vars

\* two lines of one block have been emitted as one fragment, one space between
C12_Witness ==
    /\ pc = "block"
    /\ \E k \in 1..Len(markdown_output) :
         /\ markdown_output[k].kind = "para"
         /\ markdown_output[k].page = page_num + 1
         /\ Len(markdown_output[k].src) = 2
         /\ markdown_output[k].src[1][2] = markdown_output[k].src[2][2]
         /\ markdown_output[k].text = <<"c", " ", "*", "*", "d", "*", "*", " ", "e", "\n">>

\* what a step does to the position carried from block to block
PositionStep ==
    /\ (pc = "block" /\ i' = i + 1 /\ ~IsTextBlock(PageBlock(i))) =>
         /\ last_block_bottom' = last_block_bottom
         /\ current_paragraph' = current_paragraph
         /\ markdown_output' = markdown_output
    /\ TextBlockStep => last_block_bottom' = PageBlock(i).bbox[4]
    /\ (pc = "page" \/ pc' = "page") => last_block_bottom' = last_block_bottom

\* C14: a non-text block changes neither lastBlockBottom nor the open paragraph
\* nor the output list; every text block gone through sets lastBlockBottom to
\* the bottom edge of its bounding box, heading, list, paragraph or empty; from
\* the end of a page to the first block of the next processed page
\* lastBlockBottom stays as it is.
C14_PositionTracking == [][PositionStep]_vars

\* a later page is begun with the bottom edge of the last text block of the
\* page before it, a non-text block gone through since
C14_Witness ==
    /\ pc = "block" /\ page_num > 0 /\ i = 1
    /\ ~IsTextBlock(PageBlock(0))
    /\ last_block_bottom = 46
    /\ \E k \in 1..Len(markdown_output) : markdown_output[k].page < page_num + 1

\* the step goes through the first text block of the document: its page is
\* the first with a marker, and no text block stands before it on the page
FirstTextBlockStep ==
    /\ TextBlockStep
    /\ Cardinality(Markers) = 1
    /\ \A idx \in 0..(i - 1) : ~IsTextBlock(PageBlock(idx))

\* C17 as claimed: paragraph-break detection is never applied to the first
\* text block processed in the document: no blank fragment comes between the
\* first page marker and the output of that block, also when non-text blocks
\* stand before it on its page or skipped pages before its page.
C17_AsClaimed ==
    [][FirstTextBlockStep =>
         /\ \A k \in 1..Len(NewFragments) : NewFragments[k].kind # "blank"
         /\ markdown_output' =
              process_text_block([out |-> markdown_output, para |-> current_paragraph],
                                 PageBlock(i), 0, 0, body_size, heading_levels,
                                 last_block_bottom).out]_vars

\* the gap between block i of the page in hand and the bottom edge carried to
\* it is greater than bodySize x 0.7
GapAboveThreshold == 10 * (PageBlock(i).bbox[2] - last_block_bottom) > 7 * body_size

NoTwoBlanks ==
    \A k \in 1..(Len(markdown_output) - 1) :
      ~(markdown_output[k].kind = "blank" /\ markdown_output[k + 1].kind = "blank")

BlankStep ==
    LET blanks == {k \in 1..Len(NewFragments) : NewFragments[k].kind = "blank"}
    IN  blanks # {} =>
          /\ TextBlockStep
          /\ GapAboveThreshold
          /\ markdown_output[Len(markdown_output)].kind # "blank"
          /\ Cardinality(blanks) = 1
          /\ \A k \in blanks : NewFragments[k].text = <<>>

TextLinesDone ==
    UNION {IF is_heading(PageLines(idx), body_size, heading_levels)
           THEN {<<page_num + 1, idx, 0>>}
           ELSE {<<page_num + 1, idx, ln>> : ln \in
                   {n \in 1..Len(PageLines(idx)) :
                      Strip(line_text_raw(PageLines(idx)[n])) # <<>>}}
           : idx \in {x \in 0..(i - 1) : IsTextBlock(PageBlock(x))}}

\* the places where frags, and the accumulator para, carry line s
PlacesOf(s, frags, para) ==
    UNION {{<<k, n>> : n \in {m \in 1..Len(frags[k].src) : frags[k].src[m] = s}}
           : k \in 1..Len(frags)}
    \cup {<<0, n>> : n \in {m \in 1..Len(para.src) : para.src[m] = s}}

\* every line gone through is carried once, by a fragment of the kind that is
\* its own or by the accumulator, and nothing else is carried
NothingLost ==
    pc = "block" =>
      LET done == TextLinesDone
      IN  /\ \A s \in done :
               /\ Cardinality(PlacesOf(s, markdown_output, current_paragraph)) = 1
               /\ \A k \in 1..Len(markdown_output) :
                    (\E n \in 1..Len(markdown_output[k].src) :
                       markdown_output[k].src[n] = s) =>
                      markdown_output[k].kind =
                        IF s[3] = 0 THEN "heading"
                        ELSE IF is_list_item(line_text_raw(PageLines(s[2])[s[3]]))
                             THEN "list" ELSE "para"
          /\ \A k \in 1..Len(markdown_output) :
               markdown_output[k].page = page_num + 1 =>
                 \A n \in 1..Len(markdown_output[k].src) :
                   markdown_output[k].src[n] \in done
          /\ \A n \in 1..Len(current_paragraph.src) : current_paragraph.src[n] \in done

\* at the end of a page every line is in a fragment, the accumulator empty
PageEndStep ==
    (pc = "block" /\ pc' = "page") =>
      /\ current_paragraph' = EmptyParagraph
      /\ \A s \in TextLinesDone :
           Cardinality(PlacesOf(s, markdown_output', EmptyParagraph)) = 1

\* C19: no text is lost or duplicated: after the last page the accumulator is
\* empty; each non-whitespace line of a non-heading text block of a processed
\* page is in exactly one emitted fragment, its own list fragment or one
\* flushed paragraph, and the text of a heading block in exactly one heading
\* fragment.
C19_NoTextLost ==
    /\ [](NothingLost /\ CarriesItsSources)
    /\ [](pc \in {"page", "done"} => current_paragraph = EmptyParagraph)
    /\ [][PageEndStep]_vars

\* a page with a heading, two paragraph lines and a list line has been gone
\* through to its end
C19_Witness ==
    /\ pc = "block" /\ i = Len(page.blocks)
    /\ Cardinality(TextLinesDone) >= 4
    /\ \A kind \in {"heading", "para", "list"} :
         \E k \in 1..Len(markdown_output) :
           markdown_output[k].kind = kind /\ markdown_output[k].page = page_num + 1

-----------------------------------------------------------------------------
(* The claim about the final output, under SpecPost.                       *)

\* the texts of the fragments, a newline between each two
RECURSIVE Joined(_)
Joined(frags) ==
    IF frags = <<>> THEN <<>>
    ELSE IF Len(frags) = 1 THEN frags[1].text
    ELSE Joined(SubSeq(frags, 1, Len(frags) - 1)) \o <<"\n">> \o frags[Len(frags)].text

\* s read from the left, a newline dropped when two newlines stand before it
RECURSIVE AtMostTwo(_, _)
AtMostTwo(kept, s) ==
    IF s = <<>> THEN kept
    ELSE AtMostTwo(IF Head(s) = "\n" /\ EndsWith(kept, <<"\n", "\n">>)
                   THEN kept ELSE Append(kept, Head(s)),
                   Tail(s))

\* s without the whitespace at its ends
Trimmed(s) ==
    LET inked == {k \in 1..Len(s) : ~IsSpace(s[k])}
    IN  IF inked = {} THEN <<>> ELSE SubSeq(s, MinOf(inked), MaxOf(inked))

\* three newlines in a row somewhere in s
HasLongRun(s) ==
    \E k \in 1..(Len(s) - 2) : s[k] = "\n" /\ s[k + 1] = "\n" /\ s[k + 2] = "\n"

\* C11: the final document is the fragments joined with a newline, every run
\* of 3 or more newlines made exactly 2 and the whitespace at both ends
\* trimmed; it has no run of more than two newlines, and the collapse and the
\* trim applied a second time give the same text.
C11_PostProcessing ==
    pc = "post_done" =>
        /\ final_markdown = Trimmed(AtMostTwo(<<>>, Joined(markdown_output)))
        /\ ~HasLongRun(final_markdown)
        /\ Strip(collapse_newlines(final_markdown)) = final_markdown
        /\ Trimmed(AtMostTwo(<<>>, final_markdown)) = final_markdown

\* a fragment list whose joined text has a run of four newlines inside and
\* whitespace at both ends has been post-processed
C11_Witness ==
    /\ pc = "post_done"
    /\ \E k \in 1..(Len(Joined(markdown_output)) - 3) :
         SubSeq(Joined(markdown_output), k, k + 3) = <<"\n", "\n", "\n", "\n">>
    /\ Len(final_markdown) < Len(AtMostTwo(<<>>, Joined(markdown_output)))
    /\ \E k \in 1..(Len(final_markdown) - 1) :
         final_markdown[k] = "\n" /\ final_markdown[k + 1] = "\n"

-----------------------------------------------------------------------------
(* The claim about list items, under SpecList.                             *)

\* text is p whitespace characters, a marker, then a whitespace character; the
\* marker one of '* - + bullet', or digits (up to maxDigits of them) and a
\* '.', or one letter and a '.'
ListShape(text, maxDigits) ==
    \E p \in 0..Len(text) :
      /\ \A k \in 1..p : IsSpace(text[k])
      /\ \E m \in 1..(Len(text) - p - 1) :
           /\ IsSpace(text[p + m + 1])
           /\ \/ m = 1 /\ text[p + 1] \in {"*", "-", "+", "bullet"}
              \/ /\ m = 2 /\ text[p + 2] = "."
                 /\ text[p + 1] \in Letters
              \/ /\ m >= 2 /\ m <= maxDigits + 1 /\ text[p + m] = "."
                 /\ \A k \in (p + 1)..(p + m - 1) : text[k] \in Digits

ListText == line_in[1].text

\* the fragment of the sibling list line
SiblingFragment ==
    [text |-> <<"-", " ", "f", "\n">>, kind |-> "list", page |-> 1, src |-> <<<<1, 0, 2>>>>]

\* what the two lines give when the first is a list item exactly when isItem,
\* and its fragment is the text own
ListHandling(isItem, own) ==
    pc = "list_done" =>
      /\ is_list_item(ListText) <=> isItem
      /\ current_paragraph = EmptyParagraph
      /\ markdown_output[Len(markdown_output)] = SiblingFragment
      /\ isItem =>
           markdown_output =
             <<[text |-> own, kind |-> "list", page |-> 1, src |-> <<<<1, 0, 1>>>>],
               SiblingFragment>>
      /\ ~isItem =>
           \A k \in 1..(Len(markdown_output) - 1) : markdown_output[k].kind = "para"

ListExamples ==
    /\ is_list_item(<<"*", " ", "a">>) /\ is_list_item(<<"1", ".", " ", "a">>)
    /\ is_list_item(<<"a", ".", " ", "a">>) /\ is_list_item(<<"-", " ", "a">>)
    /\ is_list_item(<<"bullet", " ", "a">>)
    /\ ~is_list_item(<<"*", "a">>) /\ ~is_list_item(<<"a">>)

\* C13 as claimed: a line is a list item exactly when it is optional
\* whitespace, one of '* - + bullet' or a digit and '.' or a letter and '.',
\* then whitespace; its fragment is the line with trailing whitespace stripped.
C13_AsClaimed ==
    ListExamples /\ ListHandling(ListShape(ListText, 1), RStrip(ListText))

\* C13, amended: a line is a list item exactly when it is optional whitespace,
\* one of '* - + bullet' or one or more digits and '.' or a letter and '.',
\* then whitespace; every such line is emitted as a fragment of its own, the
\* line with leading and trailing whitespace stripped and a newline after it,
\* never appended to the accumulator and never merged with a sibling list line.
C13_ListItems ==
    ListExamples
    /\ ListHandling(ListShape(ListText, MaxListChars + 1), Strip(ListText) \o <<"\n">>)

\* a list line with whitespace before its marker and a number of two digits
\* has been emitted, apart from its sibling
C13_Witness ==
    /\ pc = "list_done"
    /\ ListText = <<" ", "1", "1", ".", " ">>
    /\ Len(markdown_output) = 2
    /\ markdown_output[1].text = <<"1", "1", ".", "\n">>

-----------------------------------------------------------------------------
(* The claim about the block average, under SpecBlock.                     *)

\* sum of size x stripped length over the spans, by the stripped length of all
\* of them, rounded; body when no character is left
StrippedAverage(spans, body) ==
    LET total == SumSeq([k \in 1..Len(spans) |->
                           RoundSize(spans[k].size) * StrippedLength(spans[k].text)])
        count == SumSeq([k \in 1..Len(spans) |-> StrippedLength(spans[k].text)])
    IN  IF count > 0 THEN RoundDiv(total, count) ELSE body

\* the spans without their whitespace
Unspaced(spans) ==
    [k \in 1..Len(spans) |->
       [spans[k] EXCEPT !.text = SelectSeq(spans[k].text, LAMBDA c : ~IsSpace(c))]]

IsHeadingOut ==
    \E k \in 1..Len(markdown_output) : markdown_output[k].kind = "heading"

\* C15 as claimed: the size used for the heading test is the sum of size x
\* stripped text length over the spans of the block divided by the stripped
\* text length of the block, bodySize when no character is left; whitespace in
\* the span texts does not change whether the block is a heading.
C15_AsClaimed ==
    pc = "block_done" =>
      /\ block_avg_size(<<line_text_parts(line_in, body_size)>>, body_size)
           = StrippedAverage(line_in, body_size)
      /\ IsHeadingOut <=>
           /\ StrippedAverage(line_in, body_size) \in DOMAIN heading_levels
           /\ Strip(BlockText(BuiltBlock)) # <<>>
      /\ IsHeadingOut <=>
           is_heading(<<line_text_parts(Unspaced(line_in), body_size)>>,
                      body_size, heading_levels)

-----------------------------------------------------------------------------
(* The claim about the body-size fallback, under SpecProfile.              *)

\* how many spans of the page have the rounded size s
SpansOfSize(s) ==
    Cardinality({k \in 1..Len(ProfiledSpans) : RoundSize(ProfiledSpans[k].size) = s})

\* the rounded sizes no other size has more spans than
MostFrequentSizes == {s \in PageSizes : \A t \in PageSizes : SpansOfSize(t) <= SpansOfSize(s)}

\* C16 as claimed: when no size of the page carries a character, bodySize is
\* the mode of the rounded sizes of all spans, and 10 when there is no size.
C16_AsClaimed ==
    (pc = "profiled" /\ \A s \in PageSizes : WeightOf(ProfiledSpans, s) = 0) =>
        IF PageSizes = {} THEN body_size = 10 ELSE body_size \in MostFrequentSizes

=============================================================================
